---- MODULE Spec2Model ----
(***************************************************************************)
(* A model of the Markdown editor component of src/App.jsx: the text       *)
(* buffer (React state `text`), the two history stacks (undoStack,         *)
(* redoStack), the textarea's selection, the zero-delay timers scheduled   *)
(* by wrapSelection, and the keyboard-shortcut handler handleKeyDown.      *)
(*                                                                         *)
(* A buffer is a sequence of one-character strings, so that offsets,       *)
(* slices, splits and joins are computed the way the JavaScript string     *)
(* operations compute them.                                                *)
(***************************************************************************)
EXTENDS Integers, Sequences, FiniteSets, TLC

---------------------------------------------------------------------------
(* Bounds of the exploration.                                              *)

\* SpecFn: the longest buffer an initial state holds.
MaxBuf == 3
\* Spec: shortcuts are explored while the undo stack is shorter than this.
MaxUndo == 1
\* Spec: shortcuts are explored while fewer timer callbacks than this are queued.
MaxPending == 1
\* SpecHist: the number of consecutive edits explored.
HistEdits == 150
\* SpecKeys: the longest buffer a key event is handled on.
MaxKeyBuf == 2

(* Program constant: the undo stack's capacity (saveHistory).              *)
HistoryLimit == 100

---------------------------------------------------------------------------
(* Characters and the literal strings of the shortcut table.               *)

NL == "\n"
Alphabet == {"a", NL}

Min(a, b) == IF a <= b THEN a ELSE b
Max(a, b) == IF a >= b THEN a ELSE b

RECURSIVE TextsOfLen(_)
TextsOfLen(n) ==
  IF n = 0 THEN {<<>>}
  ELSE {Append(t, c) : t \in TextsOfLen(n - 1), c \in Alphabet}

\* Every buffer over Alphabet of length at most n.
TextsUpTo(n) == UNION {TextsOfLen(k) : k \in 0..n}

---------------------------------------------------------------------------
(* JavaScript string operations.                                           *)

\* String.prototype.slice(a, b): negative offsets count from the end, both
\* are clamped to the string, an empty range gives "".
Slice(str, a, b) ==
  LET len == Len(str)
      from == IF a < 0 THEN Max(len + a, 0) ELSE Min(a, len)
      to == IF b < 0 THEN Max(len + b, 0) ELSE Min(b, len)
  IN  IF from >= to THEN <<>> ELSE SubSeq(str, from + 1, to)

\* str.slice(a): to the end of the string.
SliceFrom(str, a) == Slice(str, a, Len(str))

\* str.split("\n"): the pieces between newlines; "" splits to [""].
RECURSIVE SplitAt(_, _, _, _)
SplitAt(str, i, cur, acc) ==
  IF i > Len(str) THEN Append(acc, cur)
  ELSE IF str[i] = NL THEN SplitAt(str, i + 1, <<>>, Append(acc, cur))
  ELSE SplitAt(str, i + 1, Append(cur, str[i]), acc)

Split(str) == SplitAt(str, 1, <<>>, <<>>)

\* lines.join("\n")
RECURSIVE Join(_)
Join(lines) ==
  IF Len(lines) = 0 THEN <<>>
  ELSE IF Len(lines) = 1 THEN lines[1]
  ELSE lines[1] \o <<NL>> \o Join(Tail(lines))

\* key.toLowerCase() on the keys of KeyNames.
ToLowerCase(k) ==
  CASE k = "B" -> "b"
    [] k = "Z" -> "z"
    [] k = "G" -> "g"
    [] OTHER -> k

Digits == <<"0", "1", "2", "3", "4", "5", "6", "7", "8", "9">>
IsDigit(c) == \E i \in 1..10 : Digits[i] = c
DigitVal(c) == (CHOOSE i \in 1..10 : Digits[i] = c) - 1

\* The decimal text of a number n >= 0, as a template literal writes it.
RECURSIVE Decimal(_)
Decimal(n) ==
  IF n < 10 THEN <<Digits[n + 1]>>
  ELSE Decimal(n \div 10) \o <<Digits[(n % 10) + 1]>>

\* What prompt() returns: null when the dialog is cancelled, else the line typed.
Answer(cancelled, value) == [cancelled |-> cancelled, value |-> value]
Cancelled == Answer(TRUE, <<>>)

\* The test `url !== null`, which lets the empty string through.
TruthyUnlessNull(ans) == ~ans.cancelled

\* if (url): null and "" are falsy, every other string is truthy.
Truthy(ans) == ~ans.cancelled /\ Len(ans.value) > 0

\* parseInt(x): leading blanks are skipped, then an optional sign, then the
\* longest run of decimal digits; NaN when there is no digit (null reads as
\* the text "null"). The answers explored hold no "0x" prefix.
RECURSIVE SkipBlanks(_)
SkipBlanks(str) ==
  IF Len(str) > 0 /\ Head(str) = " " THEN SkipBlanks(Tail(str)) ELSE str

RECURSIVE DigitRun(_, _, _)
DigitRun(str, seen, acc) ==
  IF Len(str) > 0 /\ IsDigit(Head(str))
  THEN DigitRun(Tail(str), TRUE, acc * 10 + DigitVal(Head(str)))
  ELSE [nan |-> ~seen, val |-> acc]

ParseInt(ans) ==
  IF ans.cancelled THEN [nan |-> TRUE, val |-> 0]
  ELSE LET s0 == SkipBlanks(ans.value)
           neg == Len(s0) > 0 /\ Head(s0) = "-"
           s1 == IF Len(s0) > 0 /\ Head(s0) \in {"-", "+"} THEN Tail(s0) ELSE s0
           r == DigitRun(s1, FALSE, 0)
       IN  [nan |-> r.nan, val |-> IF neg THEN 0 - r.val ELSE r.val]

\* n > 0 on a parseInt result: every comparison with NaN is false.
Positive(n) == ~n.nan /\ n.val > 0

---------------------------------------------------------------------------
(* The literal strings of the shortcut table.                              *)

\* The grave accent ("backtick") character, which a TLA+ string literal
\* cannot hold: one character, written as this token.
BackTick == "BACKTICK"

Bold == <<"*", "*">>
Italic == <<"*">>
InlineCode == <<BackTick>>
Strike == <<"~", "~">>
H1 == <<"#", " ">>
H2 == <<"#", "#", " ">>
H3 == <<"#", "#", "#", " ">>
Bullet == <<"-", " ">>
Quote == <<">", " ">>
Task == <<"-", " ", "[", " ", "]", " ">>
Rule == <<"-", "-", "-", NL>>
CodeOpen == <<NL, BackTick, BackTick, BackTick, "b", "a", "s", "h", NL>>
CodeClose == <<NL, BackTick, BackTick, BackTick, NL>>
LinkOpen == <<"[">>
LinkClose(url) == <<"]", "(">> \o url \o <<")">>
ImageOpen == <<"!", "[", "]", "(">>
ImageClose == <<")">>
HeaderWord == <<"H", "e", "a", "d", "e", "r", " ">>
CellEnd == <<" ", "|", " ">>
DividerCell == <<"-", "-", "-", "-", " ", "|", " ">>
DataCell == <<"D", "a", "t", "a", " ", "|", " ">>
RowOpen == <<"|", " ">>

\* The header loop labelling its cells with c instead of c + 1.
RECURSIVE HeaderCellsFromZero(_, _)
HeaderCellsFromZero(c, cols) ==
  IF c >= cols THEN <<>>
  ELSE HeaderWord \o Decimal(c) \o CellEnd \o HeaderCellsFromZero(c + 1, cols)

\* for (let c = 0; c < cols; c++) table += 'Header ${c + 1} | ';
RECURSIVE HeaderCells(_, _)
HeaderCells(c, cols) ==
  IF c >= cols THEN <<>>
  ELSE HeaderWord \o Decimal(c + 1) \o CellEnd \o HeaderCells(c + 1, cols)

\* for (let c = 0; c < cols; c++) table += cell;
RECURSIVE Repeat(_, _)
Repeat(cell, n) == IF n <= 0 THEN <<>> ELSE cell \o Repeat(cell, n - 1)

\* The table skeleton built for cols > 0 and rows > 0.
TableText(cols, rows) ==
  RowOpen \o HeaderCells(0, cols) \o <<NL>> \o RowOpen
    \o Repeat(DividerCell, cols) \o <<NL>>
    \o Repeat(RowOpen \o Repeat(DataCell, cols) \o <<NL>>, rows)

---------------------------------------------------------------------------
(* The state.                                                              *)

VARIABLES
  text,            \* useState(""): the buffer, also the textarea's value
  undoStack,       \* undoStack.current, most recent last
  redoStack,       \* redoStack.current, most recent last
  selectionStart,  \* textarea.selectionStart
  selectionEnd,    \* textarea.selectionEnd
  timeouts,        \* the callbacks setTimeout(..., 0) has queued, oldest first
  clean,           \* history: no typing, undo or redo has been handled yet
  captures,        \* history: the buffers saveHistory captured, in order,
                   \*          while clean
  log              \* history: the last events handled, oldest first

vars == <<text, undoStack, redoStack, selectionStart, selectionEnd, timeouts,
          clean, captures, log>>

Last(s) == s[Len(s)]
Front(s) == SubSeq(s, 1, Len(s) - 1)

\* The log holds the latest events handled, the last one always, and before it
\* as many as begin one of the event sequences examined: a transform, undo,
\* redo; a transform, undo, a transform, redo; undo, redo.
Kind(op) ==
  CASE op \in {"wrap", "prefix"} -> "E"
    [] op = "undo" -> "U"
    [] op = "redo" -> "R"
    [] OTHER -> "X"

Examined == {<<"E", "U", "R">>, <<"E", "U", "E", "R">>, <<"U", "R">>}

Begins(entries) ==
  \E p \in Examined :
    /\ Len(entries) <= Len(p)
    /\ \A i \in 1..Len(entries) : Kind(entries[i].op) = p[i]

Remember(entry) ==
  LET all == Append(log, entry)
      n == Len(all)
      Suffix(k) == SubSeq(all, n - k + 1, n)
      keep == CHOOSE k \in 1..n :
                /\ k = 1 \/ Begins(Suffix(k))
                /\ \A j \in (k + 1)..n : ~Begins(Suffix(j))
  IN  log' = Suffix(keep)

\* An entry of the log: the branch taken (op, key, shift), whether it called
\* preventDefault, the strings it inserted, the selection it read and the
\* buffer before and after it; acted tells an undo or a redo that found its
\* stack non-empty from one that returned early.
Entry(op, key, shift, prevented, pre, post) ==
  [op |-> op, key |-> key, shift |-> shift, prevented |-> prevented,
   pre |-> pre, post |-> post,
   acted |-> CASE op = "undo" -> Len(undoStack) > 0
               [] op = "redo" -> Len(redoStack) > 0
               [] OTHER -> op \in {"wrap", "prefix", "type"},
   before |-> text, after |-> text',
   start |-> selectionStart, end |-> selectionEnd]

\* The textarea is rendered with value={text}: when the value it is given
\* differs from the one it shows, the caret moves to the end of the new value;
\* otherwise the selection stays.
Render(newText) ==
  IF newText = text
  THEN UNCHANGED <<selectionStart, selectionEnd>>
  ELSE selectionStart' = Len(newText) /\ selectionEnd' = Len(newText)

---------------------------------------------------------------------------
(* The history manager.                                                    *)

\* The push evicting only once the stack holds two entries too many.
PushCappedLate(stack, t) ==
  LET pushed == Append(stack, t)
  IN  IF Len(pushed) > HistoryLimit + 1 THEN Tail(pushed) ELSE pushed

\* The push without the eviction.
PushUncapped(stack, t) == Append(stack, t)

\* The push evicting the newest entry (pop) where the code evicts the oldest.
PushCappedDropsNewest(stack, t) ==
  LET pushed == Append(stack, t)
  IN  IF Len(pushed) > HistoryLimit THEN Front(pushed) ELSE pushed

\* undoStack.current.push(t); if (length > 100) undoStack.current.shift();
PushCapped(stack, t) ==
  LET pushed == Append(stack, t)
  IN  IF Len(pushed) > HistoryLimit THEN Tail(pushed) ELSE pushed

\* saveHistory run twice: the buffer is pushed two times.
saveHistoryTwice ==
  /\ undoStack' = PushCapped(PushCapped(undoStack, text), text)
  /\ redoStack' = <<>>
  /\ captures' = IF clean THEN Append(captures, text) ELSE captures

\* saveHistory without `redoStack.current = []`.
saveHistoryKeepsRedo ==
  /\ undoStack' = PushCapped(undoStack, text)
  /\ UNCHANGED redoStack
  /\ captures' = IF clean THEN Append(captures, text) ELSE captures

saveHistory ==
  /\ undoStack' = PushCapped(undoStack, text)
  /\ redoStack' = <<>>
  /\ captures' = IF clean THEN Append(captures, text) ELSE captures

\* handleUndo without its early return: on an empty stack pop() gives
\* undefined, shown as the empty buffer.
handleUndoUnguarded ==
  LET popped == IF Len(undoStack) = 0 THEN <<>> ELSE Last(undoStack)
  IN  /\ redoStack' = Append(redoStack, text)
      /\ text' = popped
      /\ undoStack' = IF Len(undoStack) = 0 THEN <<>> ELSE Front(undoStack)
      /\ Render(popped)

\* handleUndo taking the oldest entry (shift) where the code takes the newest.
handleUndoOldest ==
  IF Len(undoStack) = 0
  THEN UNCHANGED <<text, undoStack, redoStack, selectionStart, selectionEnd>>
  ELSE /\ redoStack' = Append(redoStack, text)
       /\ text' = Head(undoStack)
       /\ undoStack' = Tail(undoStack)
       /\ Render(Head(undoStack))

handleUndo ==
  IF Len(undoStack) = 0
  THEN UNCHANGED <<text, undoStack, redoStack, selectionStart, selectionEnd>>
  ELSE /\ redoStack' = Append(redoStack, text)
       /\ text' = Last(undoStack)
       /\ undoStack' = Front(undoStack)
       /\ Render(Last(undoStack))

\* handleRedo without `undoStack.current.push(text)`: the buffer replaced is
\* kept nowhere.
handleRedoDropsCurrent ==
  IF Len(redoStack) = 0
  THEN UNCHANGED <<text, undoStack, redoStack, selectionStart, selectionEnd>>
  ELSE /\ UNCHANGED undoStack
       /\ text' = Last(redoStack)
       /\ redoStack' = Front(redoStack)
       /\ Render(Last(redoStack))

\* handleRedo capturing history as an edit does: the push evicts and the redo
\* stack is cleared.
handleRedoCapturing ==
  IF Len(redoStack) = 0
  THEN UNCHANGED <<text, undoStack, redoStack, selectionStart, selectionEnd>>
  ELSE /\ undoStack' = PushCapped(undoStack, text)
       /\ text' = Last(redoStack)
       /\ redoStack' = <<>>
       /\ Render(Last(redoStack))

handleRedo ==
  IF Len(redoStack) = 0
  THEN UNCHANGED <<text, undoStack, redoStack, selectionStart, selectionEnd>>
  ELSE /\ undoStack' = Append(undoStack, text)
       /\ text' = Last(redoStack)
       /\ redoStack' = Front(redoStack)
       /\ Render(Last(redoStack))

---------------------------------------------------------------------------
(* The transform engine.                                                   *)

\* A parameter the caller left out (undefined), or the value it passed.
Omitted == [given |-> FALSE, value |-> <<>>]
Given(v) == [given |-> TRUE, value |-> v]

\* (before, after = before): the default parameter of wrapSelection.
AfterOrDefault(before, after) == IF after.given THEN after.value ELSE before

\* newText with `after` placed at the start of the selection.
WrapTextAfterFirst(str, start, end, before, after) ==
  Slice(str, 0, start) \o before \o after \o Slice(str, start, end)
    \o SliceFrom(str, end)

\* newText of wrapSelection.
WrapText(str, start, end, before, after) ==
  Slice(str, 0, start) \o before \o Slice(str, start, end) \o after
    \o SliceFrom(str, end)

\* The assigned selection with selectionEnd not shifted by before.length.
WrapSelectionRangeUnshifted(str, start, end, before) ==
  [selectionStart |-> start + Len(before),
   selectionEnd |-> start + Len(Slice(str, start, end))]

\* The selection the timer callback of wrapSelection assigns.
WrapSelectionRange(str, start, end, before) ==
  [selectionStart |-> start + Len(before),
   selectionEnd |-> start + Len(before) + Len(Slice(str, start, end))]

wrapSelection(before, after) ==
  /\ saveHistory
  /\ text' = WrapText(text, selectionStart, selectionEnd, before,
                      AfterOrDefault(before, after))
  /\ Render(WrapText(text, selectionStart, selectionEnd, before,
                     AfterOrDefault(before, after)))
  /\ timeouts' =
       Append(timeouts, WrapSelectionRange(text, selectionStart, selectionEnd, before))

\* The map with the test `end >= lineStart` alone.
RECURSIVE MapLinesUpToEnd(_, _, _, _, _, _)
MapLinesUpToEnd(lines, i, charCount, start, end, prefix) ==
  IF i > Len(lines) THEN <<>>
  ELSE LET lineStart == charCount
           line == IF end >= lineStart THEN prefix \o lines[i] ELSE lines[i]
       IN  <<line>> \o MapLinesUpToEnd(lines, i + 1, charCount + Len(line) + 1,
                                       start, end, prefix)

\* lines.map(...) of insertAtLineStart, from line i on; charCount is the
\* running offset the callback keeps.
RECURSIVE MapLines(_, _, _, _, _, _)
MapLines(lines, i, charCount, start, end, prefix) ==
  IF i > Len(lines) THEN <<>>
  ELSE LET lineStart == charCount
           lineEnd == charCount + Len(lines[i])
           line == IF start <= lineEnd /\ end >= lineStart
                   THEN prefix \o lines[i]
                   ELSE lines[i]
       IN  <<line>> \o MapLines(lines, i + 1, charCount + Len(line) + 1,
                                start, end, prefix)

\* The buffer insertAtLineStart sets.
PrefixText(str, start, end, prefix) ==
  Join(MapLines(Split(str), 1, 0, start, end, prefix))

insertAtLineStart(prefix) ==
  /\ saveHistory
  /\ text' = PrefixText(text, selectionStart, selectionEnd, prefix)
  /\ Render(PrefixText(text, selectionStart, selectionEnd, prefix))
  /\ UNCHANGED timeouts

---------------------------------------------------------------------------
(* Shortcut dispatch.                                                      *)

\* What a branch of handleKeyDown does, with the history the model keeps of it.
Wrapped(before, after, key, shift) ==
  /\ wrapSelection(before, after)
  /\ UNCHANGED clean
  /\ Remember(Entry("wrap", key, shift, TRUE, before, AfterOrDefault(before, after)))

Prefixed(prefix, key, shift) ==
  /\ insertAtLineStart(prefix)
  /\ UNCHANGED clean
  /\ Remember(Entry("prefix", key, shift, TRUE, prefix, <<>>))

Undid ==
  /\ handleUndo
  /\ clean' = FALSE
  /\ UNCHANGED <<timeouts, captures>>
  /\ Remember(Entry("undo", "z", FALSE, TRUE, <<>>, <<>>))

Redid ==
  /\ handleRedo
  /\ clean' = FALSE
  /\ UNCHANGED <<timeouts, captures>>
  /\ Remember(Entry("redo", "y", FALSE, TRUE, <<>>, <<>>))

\* A prompt was answered with a value the branch rejects: nothing is called.
Declined(key, shift) ==
  /\ UNCHANGED <<text, undoStack, redoStack, selectionStart, selectionEnd,
                 timeouts, captures, clean>>
  /\ Remember(Entry("abort", key, shift, TRUE, <<>>, <<>>))

\* A handler that calls preventDefault before it looks at the key.
UnboundPrevented ==
  /\ UNCHANGED <<text, undoStack, redoStack, selectionStart, selectionEnd,
                 timeouts, captures, clean>>
  /\ Remember(Entry("none", "", FALSE, TRUE, <<>>, <<>>))

\* No case of either switch matches: preventDefault is not called.
Unbound ==
  /\ UNCHANGED <<text, undoStack, redoStack, selectionStart, selectionEnd,
                 timeouts, captures, clean>>
  /\ Remember(Entry("none", "", FALSE, FALSE, <<>>, <<>>))

\* The switch under `if (ctrl && !e.shiftKey)`.
PlainShortcut(key, answers) ==
  CASE key = "b" -> Wrapped(Bold, Omitted, key, FALSE)
    [] key = "i" -> Wrapped(Italic, Omitted, key, FALSE)
    [] key = "1" -> Prefixed(H1, key, FALSE)
    [] key = "2" -> Prefixed(H2, key, FALSE)
    [] key = "3" -> Prefixed(H3, key, FALSE)
    [] key = "p" -> Prefixed(Bullet, key, FALSE)
    [] key = "q" -> Prefixed(Quote, key, FALSE)
    [] key = "k" -> Wrapped(InlineCode, Omitted, key, FALSE)
    [] key = "l" -> IF Truthy(answers[1])
                    THEN Wrapped(LinkOpen, Given(LinkClose(answers[1].value)), key, FALSE)
                    ELSE Declined(key, FALSE)
    [] key = "z" -> Undid
    [] key = "y" -> Redid
    [] OTHER -> Unbound

\* The switch under `if (ctrl && e.shiftKey)`.
ShiftShortcut(key, answers) ==
  CASE key = "c" -> Wrapped(CodeOpen, Given(CodeClose), key, TRUE)
    [] key = "t" -> Prefixed(Task, key, TRUE)
    [] key = "s" -> Wrapped(Strike, Omitted, key, TRUE)
    [] key = "i" -> IF Truthy(answers[1])
                    THEN Wrapped(ImageOpen, Given(ImageClose), key, TRUE)
                    ELSE Declined(key, TRUE)
    [] key = "h" -> Prefixed(Rule, key, TRUE)
    [] key = "g" -> LET cols == ParseInt(answers[1])
                        rows == ParseInt(answers[2])
                    IN  IF Positive(cols) /\ Positive(rows)
                        THEN Wrapped(TableText(cols.val, rows.val), Given(<<>>), key, TRUE)
                        ELSE Declined(key, TRUE)
    [] OTHER -> Unbound

\* onKeyDown of the textarea, for the key event e; e.answers are the lines the
\* prompts of this event would be answered with.
handleKeyDown(e) ==
  LET ctrl == e.ctrlKey \/ e.metaKey
      key == ToLowerCase(e.key)
  IN  IF ctrl /\ ~e.shiftKey THEN PlainShortcut(key, e.answers)
      ELSE IF ctrl /\ e.shiftKey THEN ShiftShortcut(key, e.answers)
      ELSE Unbound

\* onChange of the textarea: the user's input left the textarea showing v with
\* the caret at p; setText(e.target.value).
handleChange(v, p) ==
  /\ text' = v
  /\ selectionStart' = p
  /\ selectionEnd' = p
  /\ clean' = FALSE
  /\ UNCHANGED <<undoStack, redoStack, timeouts, captures>>
  /\ Remember(Entry("type", "", FALSE, FALSE, <<>>, <<>>))

\* The user moves the selection in the textarea (no handler runs).
Select(s, e) ==
  /\ selectionStart' = s
  /\ selectionEnd' = e
  /\ UNCHANGED <<text, undoStack, redoStack, timeouts, clean, captures, log>>

\* The oldest queued timer callback of wrapSelection runs: it assigns
\* selectionStart, then selectionEnd; the textarea clamps both to its value.
RunTimeout ==
  /\ Len(timeouts) > 0
  /\ selectionStart' = Min(Head(timeouts).selectionStart, Len(text))
  /\ selectionEnd' = Min(Head(timeouts).selectionEnd, Len(text))
  /\ timeouts' = Tail(timeouts)
  /\ UNCHANGED <<text, undoStack, redoStack, clean, captures, log>>

---------------------------------------------------------------------------
(* The events explored.                                                    *)

KeyNames ==
  {"b", "B", "i", "1", "2", "3", "p", "q", "k", "l", "z", "y",
   "c", "t", "s", "h", "g", "x"}

NoAnswers == <<Cancelled, Cancelled>>

UrlAnswers ==
  {Cancelled, Answer(FALSE, <<>>), Answer(FALSE, <<"u">>), Answer(FALSE, <<"v">>)}

DimAnswers ==
  {Cancelled, Answer(FALSE, <<>>), Answer(FALSE, <<"0">>), Answer(FALSE, <<"-", "1">>),
   Answer(FALSE, <<"x">>), Answer(FALSE, <<"1">>), Answer(FALSE, <<" ", "2">>)}

KeyEvents ==
  [ctrlKey : BOOLEAN, metaKey : BOOLEAN, shiftKey : BOOLEAN, key : KeyNames,
   answers : {NoAnswers}]
  \cup [ctrlKey : {TRUE}, metaKey : {FALSE}, shiftKey : BOOLEAN, key : {"l", "i"},
        answers : {<<a, Cancelled>> : a \in UrlAnswers}]
  \cup [ctrlKey : {TRUE}, metaKey : {FALSE}, shiftKey : {TRUE}, key : {"g"},
        answers : {<<a, b>> : a \in DimAnswers, b \in DimAnswers}]

\* The buffers typing is explored to produce.
TypedTexts == {<<>>, <<"a">>}

CtrlKey(key) ==
  [ctrlKey |-> TRUE, metaKey |-> FALSE, shiftKey |-> FALSE, key |-> key,
   answers |-> NoAnswers]

IsHistoryKey(e) ==
  (e.ctrlKey \/ e.metaKey) /\ ~e.shiftKey /\ ToLowerCase(e.key) \in {"z", "y"}

\* Spec explores undo and redo everywhere, and the other shortcuts on the
\* buffers typing produces while the undo stack and the timer queue are short.
Explored(e) ==
  \/ IsHistoryKey(e)
  \/ text \in TypedTexts /\ Len(undoStack) < MaxUndo /\ Len(timeouts) < MaxPending

Init ==
  /\ text = <<>>
  /\ undoStack = <<>>
  /\ redoStack = <<>>
  /\ selectionStart = 0
  /\ selectionEnd = 0
  /\ timeouts = <<>>
  /\ captures = <<>>
  /\ clean = TRUE
  /\ log = <<>>

\* Answers to the two prompts of the table shortcut of which one is cancelled,
\* empty, not positive or not a number.
RejectedDims ==
  {Cancelled, Answer(FALSE, <<>>), Answer(FALSE, <<"0">>),
   Answer(FALSE, <<"-", "1">>), Answer(FALSE, <<"x">>)}

RejectedDimPairs ==
  {<<a, Answer(FALSE, <<"1">>)>> : a \in RejectedDims}
  \cup {<<Answer(FALSE, <<"1">>), b>> : b \in RejectedDims}
  \cup {<<Cancelled, Cancelled>>}

\* The key events Spec explores: one wrap, one line prefix, the link shortcut
\* with each kind of answer, the image and table shortcuts with answers they
\* reject, undo, redo and a key with no binding.
SpecEvents ==
  {e \in KeyEvents :
     /\ e.ctrlKey /\ ~e.metaKey
     /\ \/ /\ ~e.shiftKey
           /\ e.key \in {"b", "p", "l", "z", "y", "x"}
           /\ e.answers[1] # Answer(FALSE, <<"v">>)
        \/ /\ e.shiftKey
           /\ e.key = "i"
           /\ e.answers[1] \in {Cancelled, Answer(FALSE, <<>>)}
        \/ e.shiftKey /\ e.key = "g" /\ e.answers \in RejectedDimPairs}

KeyDown == \E e \in SpecEvents : Explored(e) /\ handleKeyDown(e)

Change == \E v \in TypedTexts : \E p \in 0..Len(v) : handleChange(v, p)

MoveSelection ==
  /\ text \in TypedTexts
  /\ \E s \in 0..Len(text) : \E e \in s..Len(text) : Select(s, e)

Next == KeyDown \/ Change \/ MoveSelection \/ RunTimeout

Spec == Init /\ [][Next]_vars

---------------------------------------------------------------------------
(* SpecFn: one shortcut, any of the table, pressed in a state with any     *)
(* short buffer and any selection, followed by any run of undo and redo.   *)

\* The history stacks SpecFn starts from: empty, or holding one buffer (the
\* editor reaches them by typing, a transform and undo).
FnStacks == {<<>>, <<<<"a">>>>}

InitFn ==
  /\ text \in TextsUpTo(MaxBuf)
  /\ undoStack \in FnStacks
  /\ redoStack \in FnStacks
  /\ selectionStart \in 0..Len(text)
  /\ selectionEnd \in selectionStart..Len(text)
  /\ timeouts = <<>>
  /\ captures = <<>>
  /\ clean = FALSE
  /\ log = <<>>

FnKeyDown == log = <<>> /\ \E e \in KeyEvents : handleKeyDown(e)

FnHistoryKey == \E key \in {"z", "y"} : handleKeyDown(CtrlKey(key))

NextFn == FnKeyDown \/ FnHistoryKey \/ RunTimeout

SpecFn == InitFn /\ [][NextFn]_vars

---------------------------------------------------------------------------
(* SpecKeys: one key event of any kind, with any modifiers, handled in a    *)
(* state with any short buffer, any selection and empty or filled stacks.   *)

InitKeys ==
  /\ text \in TextsUpTo(MaxKeyBuf)
  /\ undoStack \in FnStacks
  /\ redoStack \in FnStacks
  /\ selectionStart \in 0..Len(text)
  /\ selectionEnd \in selectionStart..Len(text)
  /\ timeouts = <<>>
  /\ captures = <<>>
  /\ clean = FALSE
  /\ log = <<>>

SpecKeys == InitKeys /\ [][FnKeyDown]_vars

---------------------------------------------------------------------------
(* SpecHist: Ctrl+I pressed again and again in the empty editor, each timer *)
(* callback running before the next key, then any run of undo and redo.    *)

HistEdit ==
  /\ clean
  /\ Len(timeouts) = 0
  /\ Len(captures) < HistEdits
  /\ handleKeyDown(CtrlKey("i"))

HistUndo == Len(timeouts) = 0 /\ handleKeyDown(CtrlKey("z"))

HistRedo == Len(timeouts) = 0 /\ handleKeyDown(CtrlKey("y"))

\* Text typed over the buffer once the undo stack is full.
HistType ==
  /\ clean
  /\ Len(timeouts) = 0
  /\ Len(undoStack) = HistoryLimit
  /\ handleChange(<<"a">>, 1)

NextHist == HistEdit \/ HistUndo \/ HistRedo \/ HistType \/ RunTimeout

SpecHist == Init /\ [][NextHist]_vars

---------------------------------------------------------------------------
(* The claims.                                                             *)

LastEvent == Last(log)

\* The log is a transform followed by a successful undo (and more).
EditThenUndo ==
  /\ Len(log) >= 2
  /\ Kind(log[1].op) = "E"
  /\ log[2].op = "undo"

\* C1: from a state with buffer B0, a transform shortcut (wrap or line prefix)
\* that gives B1, then undo, leaves the buffer exactly B0, and a redo after
\* that leaves it exactly B1.
C1_UndoRedoRoundTrip ==
  /\ EditThenUndo => log[2].after = log[1].before
  /\ EditThenUndo /\ Len(log) = 2 => text = log[1].before
  /\ EditThenUndo /\ Len(log) = 3 /\ log[3].op = "redo" =>
       /\ log[3].after = log[1].after
       /\ text = log[1].after

\* A line prefix on a buffer other than the one on the undo stack below it,
\* undone and redone.
C1_Witness ==
  /\ EditThenUndo
  /\ Len(log) = 3
  /\ log[3].op = "redo"
  /\ log[1].op = "prefix"
  /\ log[1].before # log[1].after
  /\ text = log[1].after
  /\ Len(undoStack) = 2
  /\ undoStack[1] # undoStack[2]

\* The last event is a wrap of the selection (s, e) of buffer B.
Wrapping == Len(log) > 0 /\ LastEvent.op = "wrap"

\* C2: wrap sets the buffer to B[0:s] + before + B[s:e] + after + B[e:], with
\* after = before where the shortcut gives one string only; said character by
\* character, so that every character of B keeps its place in the order.
C2_WrapBuffer ==
  Wrapping =>
    LET B == LastEvent.before
        N == LastEvent.after
        s == LastEvent.start
        e == LastEvent.end
        pre == LastEvent.pre
        post == LastEvent.post
    IN  /\ N = text
        /\ Len(N) = Len(B) + Len(pre) + Len(post)
        /\ \A i \in 1..s : N[i] = B[i]
        /\ \A i \in 1..Len(pre) : N[s + i] = pre[i]
        /\ \A i \in 1..(e - s) : N[s + Len(pre) + i] = B[s + i]
        /\ \A i \in 1..Len(post) : N[e + Len(pre) + i] = post[i]
        /\ \A i \in 1..(Len(B) - e) : N[e + Len(pre) + Len(post) + i] = B[e + i]
        /\ LastEvent.key = "b" => pre = <<"*", "*">> /\ post = pre
        /\ LastEvent.key = "k" => pre = <<BackTick>> /\ post = pre
        /\ LastEvent.key = "s" => pre = <<"~", "~">> /\ post = pre
        /\ LastEvent.key = "i" /\ ~LastEvent.shift => pre = <<"*">> /\ post = pre

\* A wrap with text before, inside and after the selection, and two
\* different strings inserted.
C2_Witness ==
  /\ Wrapping
  /\ 0 < LastEvent.start
  /\ LastEvent.start < LastEvent.end
  /\ LastEvent.end < Len(LastEvent.before)
  /\ LastEvent.pre # LastEvent.post
  /\ Len(LastEvent.post) > 0

\* C3: the selection wrap restores is (s + len(before), s + len(before) +
\* (e - s)): it lies within the new buffer and selects exactly B[s:e]. While
\* the timer is queued this is what it holds; once it has run this is the
\* textarea's selection.
C3_WrapSelection ==
  Wrapping =>
    LET B == LastEvent.before
        s == LastEvent.start
        e == LastEvent.end
        newStart == s + Len(LastEvent.pre)
        newEnd == s + Len(LastEvent.pre) + (e - s)
        Selected(from, to) == [i \in 1..(to - from) |-> text[from + i]]
    IN  /\ 0 <= newStart /\ newStart <= newEnd /\ newEnd <= Len(text)
        /\ Selected(newStart, newEnd) = [i \in 1..(e - s) |-> B[s + i]]
        /\ Len(timeouts) > 0 =>
             /\ Last(timeouts).selectionStart = newStart
             /\ Last(timeouts).selectionEnd = newEnd
        /\ Len(timeouts) = 0 =>
             /\ selectionStart = newStart
             /\ selectionEnd = newEnd

\* The timer of a wrap of a non-empty selection inside the buffer has run.
C3_Witness ==
  /\ Wrapping
  /\ Len(timeouts) = 0
  /\ 0 < LastEvent.start
  /\ LastEvent.start < LastEvent.end
  /\ LastEvent.end < Len(LastEvent.before)
  /\ selectionStart = LastEvent.start + Len(LastEvent.pre)
  /\ selectionEnd < Len(text)

\* C4: from the empty history, after n transforms in a row and no undo or
\* redo, the undo stack holds min(n, 100) buffers, the pre-images of the last
\* min(n, 100) transforms in order; the pre-images evicted (the oldest 50 once
\* n = 150) are in neither stack nor the buffer, whatever is undone or redone
\* afterwards.
C4_HistoryBound ==
  LET n == Len(captures)
      evicted == {captures[i] : i \in 1..(n - HistoryLimit)}
  IN  /\ clean =>
           /\ Len(undoStack) = Min(n, HistoryLimit)
           /\ \A i \in 1..Len(undoStack) :
                undoStack[i] = captures[n - Len(undoStack) + i]
      /\ text \notin evicted
      /\ \A i \in 1..Len(undoStack) : undoStack[i] \notin evicted
      /\ \A i \in 1..Len(redoStack) : redoStack[i] \notin evicted

\* 150 transforms, then undo until the undo stack is empty: the buffer is the
\* pre-image of the 51st.
C4_Witness ==
  /\ ~clean
  /\ Len(captures) = 150
  /\ Len(undoStack) = 0
  /\ Len(redoStack) = HistoryLimit
  /\ text = captures[51]
  /\ \A i \in 1..150 : \A j \in 1..150 : i # j => captures[i] # captures[j]

\* C5: the undo stack never holds more than 100 entries, also after a redo
\* has pushed onto it.
C5_UndoStackBounded == Len(undoStack) <= HistoryLimit

\* More than 100 transforms, an undo, and a redo that refills the undo stack.
C5_Witness ==
  /\ Len(captures) > HistoryLimit
  /\ Len(undoStack) = HistoryLimit
  /\ Len(log) > 0
  /\ LastEvent.op = "redo"
  /\ LastEvent.before # LastEvent.after

\* The log is a transform, an undo and a second transform (and more).
EditUndoEdit == EditThenUndo /\ Len(log) >= 3 /\ Kind(log[3].op) = "E"

\* C6: a transform after an undo clears the redo stack: in edit; undo; edit2;
\* redo the redo changes nothing, the buffer stays the result of edit2 and the
\* redo stack stays empty.
C6_EditAfterUndoClearsRedo ==
  /\ Len(log) > 0 /\ Kind(LastEvent.op) = "E" => redoStack = <<>>
  /\ EditUndoEdit /\ Len(log) = 3 => text = log[3].after
  /\ EditUndoEdit /\ Len(log) = 4 /\ log[4].op = "redo" =>
       /\ log[4].before = log[3].after
       /\ log[4].after = log[4].before
       /\ text = log[3].after
       /\ redoStack = <<>>
       /\ Last(undoStack) = log[3].before

\* edit; undo; edit2; redo with edit2 another transform than edit.
C6_Witness ==
  /\ EditUndoEdit
  /\ Len(log) = 4
  /\ log[4].op = "redo"
  /\ log[1].after # log[3].after
  /\ log[1].before = log[3].before

\* C7: whenever the buffer changes by anything but undo and redo (a transform,
\* or text typed into the textarea), the redo stack is empty afterwards.
C7_RedoClearedByEveryEdit ==
  (/\ Len(log) > 0
   /\ LastEvent.op \in {"wrap", "prefix", "type"}
   /\ LastEvent.before # LastEvent.after)
  => redoStack = <<>>

\* Key events whose prompt is cancelled or answered with a value the claim
\* calls empty or invalid.
RejectedPromptEvents ==
  [ctrlKey : {TRUE}, metaKey : {FALSE}, shiftKey : {FALSE}, key : {"l"},
   answers : {<<a, Cancelled>> : a \in {Cancelled, Answer(FALSE, <<>>)}}]
  \cup [ctrlKey : {TRUE}, metaKey : {FALSE}, shiftKey : {TRUE}, key : {"i"},
        answers : {<<a, Cancelled>> : a \in {Cancelled, Answer(FALSE, <<>>)}}]
  \cup [ctrlKey : {TRUE}, metaKey : {FALSE}, shiftKey : {TRUE}, key : {"g"},
        answers : RejectedDimPairs]

RECURSIVE LineStartOf(_, _)
LineStartOf(lines, i) ==
  IF i = 1 THEN 0 ELSE LineStartOf(lines, i - 1) + Len(lines[i - 1]) + 1

\* Line i of the pre-edit buffer overlaps the selection (s, e).
Touches(lines, i, s, e) ==
  /\ s <= LineStartOf(lines, i) + Len(lines[i])
  /\ e >= LineStartOf(lines, i)

PrefixingLine == Len(log) > 0 /\ LastEvent.op = "prefix"

\* C9: a line prefix rewrites as prefix + line exactly the lines whose range
\* in the pre-edit buffer overlaps the selection, leaves the others and joins
\* them with newlines.
C9_PrefixEveryTouchedLine ==
  PrefixingLine =>
    LET lines == Split(LastEvent.before)
    IN  LastEvent.after =
          Join([i \in 1..Len(lines) |->
                  IF Touches(lines, i, LastEvent.start, LastEvent.end)
                  THEN LastEvent.pre \o lines[i]
                  ELSE lines[i]])

\* C10: with a caret (an empty selection) at p, a line prefix rewrites exactly
\* one line, the one holding p, and leaves every other line.
C10_PrefixAtCaret ==
  PrefixingLine /\ LastEvent.start = LastEvent.end =>
    LET lines == Split(LastEvent.before)
        p == LastEvent.start
        holding == {i \in 1..Len(lines) :
                      /\ LineStartOf(lines, i) <= p
                      /\ p <= LineStartOf(lines, i) + Len(lines[i])}
    IN  /\ Cardinality(holding) = 1
        /\ LastEvent.after =
             Join([i \in 1..Len(lines) |->
                     IF i \in holding THEN LastEvent.pre \o lines[i] ELSE lines[i]])
        /\ Len(LastEvent.after) = Len(LastEvent.before) + Len(LastEvent.pre)

\* A caret in the middle line of three.
C10_Witness ==
  /\ PrefixingLine
  /\ LastEvent.start = LastEvent.end
  /\ Len(Split(LastEvent.before)) = 3
  /\ Len(Split(LastEvent.before)[2]) > 0
  /\ LastEvent.start = LineStartOf(Split(LastEvent.before), 2) + 1
  /\ LastEvent.after # LastEvent.before

\* C11: undo with an empty undo stack and redo with an empty redo stack change
\* nothing: the buffer, both stacks, the selection and the timer queue stay as
\* they were.
C11_EmptyHistoryNoOp ==
  [][/\ \/ UNCHANGED <<text, undoStack, redoStack, selectionStart, selectionEnd,
                       timeouts>>
        \/ ~(Len(undoStack) = 0 /\ handleKeyDown(CtrlKey("z")))
     /\ \/ UNCHANGED <<text, undoStack, redoStack, selectionStart, selectionEnd,
                       timeouts>>
        \/ ~(Len(redoStack) = 0 /\ handleKeyDown(CtrlKey("y")))]_vars

\* Undo, then redo, pressed on a non-empty buffer with both stacks empty: a
\* successful undo would have left the redo stack, a successful redo the undo
\* stack, non-empty.
C11_Witness ==
  /\ Len(log) = 2
  /\ log[1].op = "undo"
  /\ log[2].op = "redo"
  /\ Len(text) > 0
  /\ Len(undoStack) = 0
  /\ Len(redoStack) = 0

\* The last two events are an undo that found an entry to pop and, right after
\* it, a redo.
UndoThenRedo ==
  /\ Len(log) >= 2
  /\ log[Len(log) - 1].op = "undo"
  /\ log[Len(log) - 1].acted
  /\ LastEvent.op = "redo"

\* A step of the undo or of the redo shortcut.
HistoryStep == handleKeyDown(CtrlKey("z")) \/ handleKeyDown(CtrlKey("y"))

\* C12: an undo that pops an entry, followed at once by redo, leaves the buffer
\* as it was before the undo; and no undo or redo captures history: undo only
\* pops the undo stack and pushes the redo stack, redo only pops the redo
\* stack and pushes the undo stack (or, its stack empty, the shortcut changes
\* nothing), neither clears the redo stack or evicts an entry of the undo
\* stack.
C12_UndoRedoNoCapture ==
  /\ [](UndoThenRedo =>
          /\ LastEvent.acted
          /\ LastEvent.after = log[Len(log) - 1].before
          /\ text = log[Len(log) - 1].before)
  /\ [][HistoryStep =>
          /\ captures' = captures
          /\ \/ UNCHANGED <<text, undoStack, redoStack>>
             \/ /\ undoStack' = Front(undoStack)
                /\ redoStack' = Append(redoStack, text)
             \/ /\ redoStack' = Front(redoStack)
                /\ undoStack' = Append(undoStack, text)]_vars

\* An undo from a full undo stack with several buffers already undone, then a
\* redo: the redo pushes onto an undo stack of 99 and must keep the rest of
\* the redo stack.
C12_Witness ==
  /\ UndoThenRedo
  /\ Len(undoStack) = HistoryLimit - 2
  /\ Len(redoStack) = 2
  /\ LastEvent.before # LastEvent.after
  /\ Len(captures) > HistoryLimit

\* A step of a transform shortcut that changes the buffer.
TransformStep ==
  /\ text' # text
  /\ Len(log') > 0
  /\ Kind(Last(log').op) = "E"

\* C13: a transform shortcut captures history once, before it changes the
\* buffer: right after it the top of the undo stack is the buffer as it was
\* just before; the step pushes one entry (evicting at most the oldest),
\* queues at most one timer callback and inserts its strings once (a wrap
\* lengthens the buffer by before and after, a line prefix by the prefix at
\* most once for each line).
C13_OneCapturePerTransform ==
  /\ [](Len(log) > 0 /\ Kind(LastEvent.op) = "E" =>
          /\ Len(undoStack) > 0
          /\ Last(undoStack) = LastEvent.before
          /\ text = LastEvent.after)
  /\ [][TransformStep =>
          LET ev == Last(log')
              grown == Len(text') - Len(text)
              kept == Len(undoStack') - 1
          IN  /\ Len(undoStack') = Min(Len(undoStack) + 1, HistoryLimit)
              /\ Last(undoStack') = text
              /\ SubSeq(undoStack', 1, kept)
                   = SubSeq(undoStack, Len(undoStack) - kept + 1, Len(undoStack))
              /\ Len(timeouts') <= Len(timeouts) + 1
              /\ ev.op = "wrap" => grown = Len(ev.pre) + Len(ev.post)
              /\ ev.op = "prefix" =>
                   /\ grown % Len(ev.pre) = 0
                   /\ grown >= Len(ev.pre)
                   /\ grown <= Len(ev.pre) * Len(Split(text))]_vars

\* A line prefix that rewrote two lines on top of an undo stack already
\* holding another buffer.
C13_Witness ==
  /\ Len(log) = 1
  /\ LastEvent.op = "prefix"
  /\ Len(LastEvent.after) - Len(LastEvent.before) = 2 * Len(LastEvent.pre)
  /\ Len(undoStack) = 2
  /\ undoStack[1] # undoStack[2]
  /\ undoStack[2] = LastEvent.before

\* Answers to a prompt of the table shortcut that read as a positive integer,
\* with the integer each stands for.
PositiveDims ==
  {[answer |-> Answer(FALSE, <<"1">>), n |-> 1],
   [answer |-> Answer(FALSE, <<" ", "2">>), n |-> 2]}

TableEvent(cols, rows) ==
  [ctrlKey |-> TRUE, metaKey |-> FALSE, shiftKey |-> TRUE, key |-> "g",
   answers |-> <<cols, rows>>]

\* A table row of the given cells: "| " and then each cell followed by " | ".
RECURSIVE TableRow(_)
TableRow(cells) ==
  IF Len(cells) = 0 THEN <<"|", " ">>
  ELSE TableRow(Front(cells)) \o Last(cells) \o <<" ", "|", " ">>

Numeral == <<"1", "2", "3", "4", "5", "6", "7", "8", "9">>

\* The rows of a table of cols columns and rows data rows.
TableRows(cols, rows) ==
  [r \in 1..(rows + 2) |->
     IF r = 1
     THEN TableRow([c \in 1..cols |-> <<"H", "e", "a", "d", "e", "r", " ", Numeral[c]>>])
     ELSE IF r = 2
     THEN TableRow([c \in 1..cols |-> <<"-", "-", "-", "-">>])
     ELSE TableRow([c \in 1..cols |-> <<"D", "a", "t", "a">>])]

\* C14: the table shortcut answered with positive integers cols and rows sets
\* the buffer to B[0:s] + table + B[s:], where the table is rows + 2 rows,
\* each ended by a newline: a header row of cells Header 1 .. Header cols, a
\* divider row of cols ---- cells and rows rows of cols Data cells.
C14_TableInserted ==
  [][\A cols \in PositiveDims : \A rows \in PositiveDims :
       handleKeyDown(TableEvent(cols.answer, rows.answer)) =>
         LET table == Join(Append(TableRows(cols.n, rows.n), <<>>))
         IN  /\ text' = Slice(text, 0, selectionStart) \o table
                          \o SliceFrom(text, selectionStart)
             /\ Len(Split(table)) = rows.n + 3
             /\ Last(table) = NL]_vars

\* A table of two columns and two rows inserted before a non-empty selection
\* that text follows.
C14_Witness ==
  /\ Wrapping
  /\ LastEvent.key = "g"
  /\ LastEvent.start < LastEvent.end
  /\ LastEvent.end < Len(LastEvent.before)
  /\ Len(Split(LastEvent.pre)) = 5
  /\ \E i \in 1..Len(LastEvent.pre) : LastEvent.pre[i] = "2"
  /\ text = LastEvent.after

\* The shortcut table: the keys bound with Ctrl or Cmd alone, and with Shift.
PlainKeys == {"b", "i", "1", "2", "3", "p", "q", "k", "l", "z", "y"}
ShiftKeys == {"c", "t", "s", "i", "h", "g"}

\* Key events whose modifiers and key are not in the shortcut table.
UnboundEvents ==
  [ctrlKey : {FALSE}, metaKey : {FALSE}, shiftKey : BOOLEAN, key : KeyNames,
   answers : {NoAnswers}]
  \cup [ctrlKey : BOOLEAN, metaKey : BOOLEAN, shiftKey : {FALSE},
        key : {k \in KeyNames : ToLowerCase(k) \notin PlainKeys},
        answers : {NoAnswers}]
  \cup [ctrlKey : BOOLEAN, metaKey : BOOLEAN, shiftKey : {TRUE},
        key : {k \in KeyNames : ToLowerCase(k) \notin ShiftKeys},
        answers : {NoAnswers}]

\* C15: a key event that is not in the shortcut table (no Ctrl or Cmd, or a
\* key without a binding under the Shift state it comes with) changes neither
\* the buffer, the selection, a history stack nor the timer queue, and
\* preventDefault is not called for it.
C15_UnboundKeyNoOp ==
  [][\/ /\ UNCHANGED <<text, selectionStart, selectionEnd, undoStack, redoStack,
                       timeouts>>
        /\ Len(log') > 0
        /\ ~Last(log').prevented
     \/ \A e \in UnboundEvents : ~handleKeyDown(e)]_vars

\* An unbound key pressed with a selection, a buffer and both stacks non-empty.
C15_Witness ==
  /\ Len(log) > 0
  /\ LastEvent.op = "none"
  /\ ~LastEvent.prevented
  /\ selectionStart < selectionEnd
  /\ Len(undoStack) > 0
  /\ Len(redoStack) > 0

\* C16: whenever the timer callback of a wrap runs, the textarea shows the
\* buffer that wrap produced: the wrap is the last event handled, no other
\* callback is queued before it, and the offsets it assigns lie within the
\* buffer.
C16_TimerSeesItsWrap ==
  [][RunTimeout =>
       /\ Len(timeouts) = 1
       /\ Wrapping
       /\ text = LastEvent.after
       /\ Head(timeouts).selectionStart <= Len(text)
       /\ Head(timeouts).selectionEnd <= Len(text)]_vars

\* The image shortcut answered with the URL url.
ImageEvent(url) ==
  [ctrlKey |-> TRUE, metaKey |-> FALSE, shiftKey |-> TRUE, key |-> "i",
   answers |-> <<Answer(FALSE, url), Cancelled>>]

\* The text part occurs somewhere in the text whole.
Contains(whole, part) ==
  \E i \in 0..(Len(whole) - Len(part)) : Slice(whole, i, i + Len(part)) = part

\* C17: the image shortcut answered with a non-empty URL u sets the buffer to
\* B[0:s] + "![](" + B[s:e] + after + B[e:] with u inside after.
C17_ImageUrlInserted ==
  [][\A u \in {<<"u">>, <<"v">>} :
       handleKeyDown(ImageEvent(u)) =>
         LET s == selectionStart
             e == selectionEnd
             open == <<"!", "[", "]", "(">>
             after == Slice(text', e + Len(open), Len(text') - (Len(text) - e))
         IN  /\ text' = Slice(text, 0, s) \o open \o Slice(text, s, e) \o after
                          \o SliceFrom(text, e)
             /\ Contains(after, u)]_vars

Reverse(stack) == [i \in 1..Len(stack) |-> stack[Len(stack) + 1 - i]]

\* The snapshots in the order they were made: the undo stack, the buffer, and
\* the redo stack from its top down.
Timeline == undoStack \o <<text>> \o Reverse(redoStack)

\* C18: undo and redo leave the timeline undoStack ++ [buffer] ++
\* reverse(redoStack) as it was and move the buffer's place in it by one at
\* most, so that k undos followed by k redos bring back the buffer and both
\* stacks.
C18_TimelinePreserved ==
  [][HistoryStep =>
       /\ Timeline' = Timeline
       /\ Len(undoStack') - Len(undoStack) \in {-1, 0, 1}
       /\ Len(undoStack') + Len(redoStack') = Len(undoStack) + Len(redoStack)
       /\ Last(log').op = "undo" /\ Last(log').acted
            => Len(undoStack') = Len(undoStack) - 1
       /\ Last(log').op = "redo" /\ Last(log').acted
            => Len(undoStack') = Len(undoStack) + 1]_vars

\* A redo in the middle of a history of different buffers: several entries
\* on both stacks before and after it.
C18_Witness ==
  /\ Len(log) > 0
  /\ LastEvent.op = "redo"
  /\ LastEvent.acted
  /\ Len(undoStack) >= 2
  /\ Len(redoStack) >= 2
  /\ text # Last(undoStack)
  /\ text # Last(redoStack)
  /\ Last(undoStack) = LastEvent.before

\* C19: the two stacks together never hold more than 100 entries, so the redo
\* stack, which has no bound of its own, never holds more than 100 either.
C19_StacksBoundedTogether ==
  /\ Len(undoStack) + Len(redoStack) <= HistoryLimit
  /\ Len(redoStack) <= HistoryLimit

\* More than 100 transforms and then undo until the undo stack is empty: the
\* redo stack holds 100 entries.
C19_Witness ==
  /\ Len(captures) > HistoryLimit
  /\ Len(redoStack) = HistoryLimit
  /\ Len(undoStack) = 0
  /\ Len(log) > 0
  /\ LastEvent.op = "undo"

====
